---- MODULE Spec2Model ----
(***************************************************************************)
(* Model of the SCD30 I2C protocol layer (src/src/scd30.rs).               *)
(*                                                                         *)
(* The Scd30 struct owns one LinuxI2CDevice and nothing else.  Every       *)
(* method builds a command buffer, writes it to the bus, sleeps 30 ms and, *)
(* for the querying methods, reads a fixed-size response which it checks   *)
(* with crc8 and decodes.  Each method is one action of the model; the     *)
(* outcome of the bus write, the outcome of the bus read and the bytes the *)
(* device delivers are the inputs of the action.                           *)
(*                                                                         *)
(* Bytes are naturals in 0..255, u16 values naturals in 0..65535.  An f32  *)
(* is represented by its 32-bit pattern (f32::from_be_bytes is a bijection *)
(* between the four bytes and the bit pattern).                            *)
(***************************************************************************)
EXTENDS Naturals, Sequences, FiniteSets

VARIABLES
    op,           \* name of the method whose result the caller holds, or "none"
    args,         \* its arguments: <<>> or <<x>>, x a u16
    buffer,       \* the command bytes handed to i2cdev.write
    trace,        \* bus activity of the invocation, in order
    data_buffer,  \* the response buffer handed to i2cdev.read
    result,       \* the Result the method returned
    io,           \* what the transport did in the invocation: [w, r, rx]
    first,        \* the first invocation of the session, as it went
    hist,         \* the session so far: the tags returned, in order, and
                  \* whether trigger_cont_measurements and get_data_ready
                  \* have been invoked
    bus           \* every bus event of the session: [call, ev]

\* the record of the session; Scd30 itself keeps none of it
session == <<io, first, hist, bus>>

vars == <<op, args, buffer, trace, data_buffer, result, io, first, hist, bus>>

----------------------------------------------------------------------------
(* Bounds of the model                                                     *)

\* u16 values 0..MaxWord are part of the sample of words
MaxWord == 3
\* measurement channels <<w, w>> with w in 0..MaxChan are part of the sample
MaxChan == 0
\* invocations in a session whose history is recorded
MaxCalls == 3

----------------------------------------------------------------------------
(* u8 arithmetic                                                           *)

Bit(a, i) == (a \div (2 ^ i)) % 2

\* a ^ b on u8
Xor(a, b) ==
    LET x(i) == IF Bit(a, i) # Bit(b, i) THEN 2 ^ i ELSE 0
    IN  x(0) + x(1) + x(2) + x(3) + x(4) + x(5) + x(6) + x(7)

\* a << 1 on u8: the bit shifted out of the byte is lost
Shl1(a) == (a * 2) % 256

\* a loop body that shifts but never folds the polynomial in
CrcShift_no_polynomial(rem) == Shl1(rem) % 256

\* one pass of the inner loop body of crc8 (lines 85-90)
CrcShift(rem) ==
    LET r == IF Bit(rem, 7) # 0 THEN Xor(Shl1(rem), 49) ELSE Shl1(rem)
    IN  r % 256

RECURSIVE CrcBits(_, _)
\* `for _ in 0..8`: n passes of the inner loop body
CrcBits(rem, n) == IF n = 0 THEN rem ELSE CrcBits(CrcShift(rem), n - 1)

RECURSIVE CrcBytes(_, _, _)
\* `for byte in message`: bytes i..Len(message) folded into rem
CrcBytes(rem, message, i) ==
    IF i > Len(message) THEN rem
    ELSE CrcBytes(CrcBits(Xor(rem, message[i]), 8), message, i + 1)

\* a crc8 that starts from remainder 0x00 instead of 0xFF
crc8_init0(message) == CrcBytes(0, message, 1)

crc8(message) == CrcBytes(255, message, 1)

\* u16::to_be_bytes
to_be_bytes(x) == <<x \div 256, x % 256>>

\* u16::from_be_bytes
u16_from_be_bytes(b) == b[1] * 256 + b[2]

\* f32::from_be_bytes, as the 32-bit pattern of the float
f32_from_be_bytes(b) == b[1] * 16777216 + b[2] * 65536 + b[3] * 256 + b[4]

----------------------------------------------------------------------------
(* Results (Result<T, Scd30Error>) and the record an invocation leaves     *)

Ok(v) == [tag |-> "Ok", val |-> v]

Err(e) == [tag |-> e, val |-> <<>>]

\* what one invocation did: the frame it wrote, its bus activity, the
\* response buffer it read into and the Result it returned
Out(b, t, d, res) == [buffer |-> b, trace |-> t, data_buffer |-> d, result |-> res]

\* bus activity of an invocation whose write returned Err: nothing follows
WriteFailed == <<"write_err">>

\* bus activity of a write-only invocation whose write returned Ok
WriteOnly == <<"write_ok", "sleep">>

\* bus activity of a querying invocation whose write and read returned Ok
ReadOk == <<"write_ok", "sleep", "read_ok">>

\* bus activity of a querying invocation whose read returned Err
ReadFailed == <<"write_ok", "sleep", "read_err">>

----------------------------------------------------------------------------
(* The methods of Scd30.  w: i2cdev.write returned Ok; r: i2cdev.read      *)
(* returned Ok; rx: the contents of data_buffer after the read.            *)

\* a check_crc_in_bytes that forgets the second word of the channel
check_crc_first_word_only(co2) ==
    LET first_crc == crc8(<<co2[1], co2[2]>>)
    IN  first_crc = co2[3]

check_crc_in_bytes(co2) ==
    LET first_crc == crc8(<<co2[1], co2[2]>>)
        second_crc == crc8(<<co2[4], co2[5]>>)
    IN  first_crc = co2[3] /\ second_crc = co2[6]

\* a check_firmware that discards the Result of the write and reads anyway
check_firmware_unchecked_write(w, r, rx) ==
    LET b == <<209, 0>>
        t == <<IF w THEN "write_ok" ELSE "write_err", "sleep",
               IF r THEN "read_ok" ELSE "read_err">>
    IN  IF r
        THEN IF rx[3] = crc8(<<rx[1], rx[2]>>)
             THEN Out(b, t, rx, Ok(u16_from_be_bytes(<<rx[1], rx[2]>>)))
             ELSE Out(b, t, rx, Err("ChecksumError"))
        ELSE Out(b, t, rx, Err("ComunicationError"))

check_firmware(w, r, rx) ==
    LET b == <<209, 0>>
    IN  IF w
        THEN IF r
             THEN IF rx[3] = crc8(<<rx[1], rx[2]>>)
                  THEN Out(b, ReadOk, rx, Ok(u16_from_be_bytes(<<rx[1], rx[2]>>)))
                  ELSE Out(b, ReadOk, rx, Err("ChecksumError"))
             ELSE Out(b, ReadFailed, rx, Err("ComunicationError"))
        ELSE Out(b, WriteFailed, <<>>, Err("ComunicationError"))

trigger_cont_measurements(w) ==
    LET b == <<0, 16, 0, 0, 129>>
    IN  IF w
        THEN Out(b, WriteOnly, <<>>, Ok(<<>>))
        ELSE Out(b, WriteFailed, <<>>, Err("ComunicationError"))

\* a stop_cont_measurements that writes the command a second time when the
\* first write fails
stop_cont_measurements_retry(w) ==
    LET b == <<1, 1>>
    IN  IF w
        THEN Out(b, WriteOnly, <<>>, Ok(<<>>))
        ELSE Out(b, <<"write_err", "write_ok", "sleep">>, <<>>, Ok(<<>>))

stop_cont_measurements(w) ==
    LET b == <<1, 1>>
    IN  IF w
        THEN Out(b, WriteOnly, <<>>, Ok(<<>>))
        ELSE Out(b, WriteFailed, <<>>, Err("ComunicationError"))

set_measurements_interval(seconds, w) ==
    LET time_in_bytes == to_be_bytes(seconds)
        checksum == crc8(<<time_in_bytes[1], time_in_bytes[2]>>)
        b == <<70, 0, time_in_bytes[1], time_in_bytes[2], checksum>>
    IN  IF w
        THEN Out(b, WriteOnly, <<>>, Ok(<<>>))
        ELSE Out(b, WriteFailed, <<>>, Err("ComunicationError"))

\* a get_data_ready that tests the high byte of the word
get_data_ready_high_byte(w, r, rx) ==
    LET b == <<2, 2>>
    IN  IF w
        THEN IF r
             THEN IF crc8(<<rx[1], rx[2]>>) = rx[3]
                  THEN IF rx[1] = 1
                       THEN Out(b, ReadOk, rx, Ok(TRUE))
                       ELSE Out(b, ReadOk, rx, Ok(FALSE))
                  ELSE Out(b, ReadOk, rx, Err("ChecksumError"))
             ELSE Out(b, ReadFailed, rx, Err("ComunicationError"))
        ELSE Out(b, WriteFailed, <<>>, Err("ComunicationError"))

get_data_ready(w, r, rx) ==
    LET b == <<2, 2>>
    IN  IF w
        THEN IF r
             THEN IF crc8(<<rx[1], rx[2]>>) = rx[3]
                  THEN IF rx[2] = 1
                       THEN Out(b, ReadOk, rx, Ok(TRUE))
                       ELSE Out(b, ReadOk, rx, Ok(FALSE))
                  ELSE Out(b, ReadOk, rx, Err("ChecksumError"))
             ELSE Out(b, ReadFailed, rx, Err("ComunicationError"))
        ELSE Out(b, WriteFailed, <<>>, Err("ComunicationError"))

\* a get_measurements that builds each float from the first four bytes of its
\* channel, the checksum byte of the high word among them
get_measurements_first_four_bytes(w, r, rx) ==
    LET b == <<3, 0>>
        co2_measurement == SubSeq(rx, 1, 6)
        temp_measurement == SubSeq(rx, 7, 12)
        rh_measurement == SubSeq(rx, 13, 18)
        f32(m) == f32_from_be_bytes(<<m[1], m[2], m[3], m[4]>>)
    IN  IF w
        THEN IF r
             THEN IF /\ check_crc_in_bytes(co2_measurement)
                     /\ check_crc_in_bytes(temp_measurement)
                     /\ check_crc_in_bytes(rh_measurement)
                  THEN Out(b, ReadOk, rx,
                           Ok(<<f32(co2_measurement), f32(temp_measurement),
                                f32(rh_measurement)>>))
                  ELSE Out(b, ReadOk, rx, Err("ChecksumError"))
             ELSE Out(b, ReadFailed, rx, Err("ComunicationError"))
        ELSE Out(b, WriteFailed, <<>>, Err("ComunicationError"))

\* a get_measurements that remembers whether continuous measurement was
\* started on this session and, if it was not, refuses without touching the bus
get_measurements_requires_trigger(w, r, rx) ==
    LET b == <<3, 0>>
        co2_measurement == SubSeq(rx, 1, 6)
        temp_measurement == SubSeq(rx, 7, 12)
        rh_measurement == SubSeq(rx, 13, 18)
        f32(m) == f32_from_be_bytes(<<m[1], m[2], m[4], m[5]>>)
    IN  IF ~hist.triggered
        THEN Out(<<>>, <<>>, <<>>, Err("ComunicationError"))
        ELSE IF w
        THEN IF r
             THEN IF /\ check_crc_in_bytes(co2_measurement)
                     /\ check_crc_in_bytes(temp_measurement)
                     /\ check_crc_in_bytes(rh_measurement)
                  THEN Out(b, ReadOk, rx,
                           Ok(<<f32(co2_measurement), f32(temp_measurement),
                                f32(rh_measurement)>>))
                  ELSE Out(b, ReadOk, rx, Err("ChecksumError"))
             ELSE Out(b, ReadFailed, rx, Err("ComunicationError"))
        ELSE Out(b, WriteFailed, <<>>, Err("ComunicationError"))

get_measurements(w, r, rx) ==
    LET b == <<3, 0>>
        co2_measurement == SubSeq(rx, 1, 6)
        temp_measurement == SubSeq(rx, 7, 12)
        rh_measurement == SubSeq(rx, 13, 18)
        f32(m) == f32_from_be_bytes(<<m[1], m[2], m[4], m[5]>>)
    IN  IF w
        THEN IF r
             THEN IF /\ check_crc_in_bytes(co2_measurement)
                     /\ check_crc_in_bytes(temp_measurement)
                     /\ check_crc_in_bytes(rh_measurement)
                  THEN Out(b, ReadOk, rx,
                           Ok(<<f32(co2_measurement), f32(temp_measurement),
                                f32(rh_measurement)>>))
                  ELSE Out(b, ReadOk, rx, Err("ChecksumError"))
             ELSE Out(b, ReadFailed, rx, Err("ComunicationError"))
        ELSE Out(b, WriteFailed, <<>>, Err("ComunicationError"))

\* a get_self_calibration_status that takes any nonzero low byte for true
get_self_calibration_status_nonzero(w, r, rx) ==
    LET b == <<83, 6>>
    IN  IF w
        THEN IF r
             THEN IF crc8(<<rx[1], rx[2]>>) = rx[3]
                  THEN IF rx[2] # 0
                       THEN Out(b, ReadOk, rx, Ok(TRUE))
                       ELSE Out(b, ReadOk, rx, Ok(FALSE))
                  ELSE Out(b, ReadOk, rx, Err("ChecksumError"))
             ELSE Out(b, ReadFailed, rx, Err("ComunicationError"))
        ELSE Out(b, WriteFailed, <<>>, Err("ComunicationError"))

get_self_calibration_status(w, r, rx) ==
    LET b == <<83, 6>>
    IN  IF w
        THEN IF r
             THEN IF crc8(<<rx[1], rx[2]>>) = rx[3]
                  THEN IF rx[2] = 1
                       THEN Out(b, ReadOk, rx, Ok(TRUE))
                       ELSE Out(b, ReadOk, rx, Ok(FALSE))
                  ELSE Out(b, ReadOk, rx, Err("ChecksumError"))
             ELSE Out(b, ReadFailed, rx, Err("ComunicationError"))
        ELSE Out(b, WriteFailed, <<>>, Err("ComunicationError"))

set_self_calibration(w, r, rx) ==
    LET b == <<83, 6>>
    IN  IF w
        THEN IF r
             THEN IF crc8(<<rx[1], rx[2]>>) = rx[3]
                  THEN IF rx[2] = 1
                       THEN Out(b, ReadOk, rx, Ok(TRUE))
                       ELSE Out(b, ReadOk, rx, Ok(FALSE))
                  ELSE Out(b, ReadOk, rx, Err("ChecksumError"))
             ELSE Out(b, ReadFailed, rx, Err("ComunicationError"))
        ELSE Out(b, WriteFailed, <<>>, Err("ComunicationError"))

soft_reset(w) ==
    LET b == <<211, 4>>
    IN  IF w
        THEN Out(b, WriteOnly, <<>>, Ok(<<>>))
        ELSE Out(b, WriteFailed, <<>>, Err("ComunicationError"))

check_altitude(w, r, rx) ==
    LET b == <<81, 2>>
    IN  IF w
        THEN IF r
             THEN IF rx[3] = crc8(<<rx[1], rx[2]>>)
                  THEN Out(b, ReadOk, rx, Ok(u16_from_be_bytes(<<rx[1], rx[2]>>)))
                  ELSE Out(b, ReadOk, rx, Err("ChecksumError"))
             ELSE Out(b, ReadFailed, rx, Err("ComunicationError"))
        ELSE Out(b, WriteFailed, <<>>, Err("ComunicationError"))

\* a set_altitude that sends the argument low byte first
set_altitude_little_endian(altitude, w) ==
    LET altitude_in_bytes == <<altitude % 256, altitude \div 256>>
        checksum == crc8(<<altitude_in_bytes[1], altitude_in_bytes[2]>>)
        b == <<81, 2, altitude_in_bytes[1], altitude_in_bytes[2], checksum>>
    IN  IF w
        THEN Out(b, WriteOnly, <<>>, Ok(<<>>))
        ELSE Out(b, WriteFailed, <<>>, Err("ComunicationError"))

set_altitude(altitude, w) ==
    LET altitude_in_bytes == to_be_bytes(altitude)
        checksum == crc8(<<altitude_in_bytes[1], altitude_in_bytes[2]>>)
        b == <<81, 2, altitude_in_bytes[1], altitude_in_bytes[2], checksum>>
    IN  IF w
        THEN Out(b, WriteOnly, <<>>, Ok(<<>>))
        ELSE Out(b, WriteFailed, <<>>, Err("ComunicationError"))

check_temperature_offset(w, r, rx) ==
    LET b == <<84, 3>>
    IN  IF w
        THEN IF r
             THEN IF rx[3] = crc8(<<rx[1], rx[2]>>)
                  THEN Out(b, ReadOk, rx, Ok(u16_from_be_bytes(<<rx[1], rx[2]>>)))
                  ELSE Out(b, ReadOk, rx, Err("ChecksumError"))
             ELSE Out(b, ReadFailed, rx, Err("ComunicationError"))
        ELSE Out(b, WriteFailed, <<>>, Err("ComunicationError"))

set_temperature_offset(offset, w) ==
    LET offset_in_bytes == to_be_bytes(offset)
        checksum == crc8(<<offset_in_bytes[1], offset_in_bytes[2]>>)
        b == <<84, 3, offset_in_bytes[1], offset_in_bytes[2], checksum>>
    IN  IF w
        THEN Out(b, WriteOnly, <<>>, Ok(<<>>))
        ELSE Out(b, WriteFailed, <<>>, Err("ComunicationError"))

\* a get_forced_value that reports a failed read as a checksum failure
get_forced_value_read_err_as_checksum(w, r, rx) ==
    LET b == <<82, 4>>
    IN  IF w
        THEN IF r /\ rx[3] = crc8(<<rx[1], rx[2]>>)
             THEN Out(b, ReadOk, rx, Ok(u16_from_be_bytes(<<rx[1], rx[2]>>)))
             ELSE Out(b, IF r THEN ReadOk ELSE ReadFailed, rx, Err("ChecksumError"))
        ELSE Out(b, WriteFailed, <<>>, Err("ComunicationError"))

get_forced_value(w, r, rx) ==
    LET b == <<82, 4>>
    IN  IF w
        THEN IF r
             THEN IF rx[3] = crc8(<<rx[1], rx[2]>>)
                  THEN Out(b, ReadOk, rx, Ok(u16_from_be_bytes(<<rx[1], rx[2]>>)))
                  ELSE Out(b, ReadOk, rx, Err("ChecksumError"))
             ELSE Out(b, ReadFailed, rx, Err("ComunicationError"))
        ELSE Out(b, WriteFailed, <<>>, Err("ComunicationError"))

set_force_recalibration_value(forced_value, w) ==
    LET forced_value_in_bytes == to_be_bytes(forced_value)
        checksum == crc8(<<forced_value_in_bytes[1], forced_value_in_bytes[2]>>)
        b == <<82, 4, forced_value_in_bytes[1], forced_value_in_bytes[2], checksum>>
    IN  IF w
        THEN Out(b, WriteOnly, <<>>, Ok(<<>>))
        ELSE Out(b, WriteFailed, <<>>, Err("ComunicationError"))

----------------------------------------------------------------------------
(* Inputs: arguments of the setters and bytes the device delivers          *)

\* u16 values: the small ones, 0x0100, 0x0101, 0x01FF, 0x43DB, 0x8001,
\* 0x8C2D and 0xFFFF
WordSample == (0 .. MaxWord) \cup {256, 257, 511, 17371, 32769, 35885, 65535}

\* bytes standing in for a checksum byte the line got wrong: 0x00, 0x0F, 0xF0
NoiseChk == {0, 15, 240}

\* the word group the device sends for x: two data bytes and their crc8
WordGroup(x) == to_be_bytes(x) \o <<crc8(to_be_bytes(x))>>

\* g with bit k (0..23, counted from the low bit of the first byte) inverted
FlipBit(g, k) == [i \in 1 .. 3 |-> IF i = (k \div 8) + 1 THEN Xor(g[i], 2 ^ (k % 8)) ELSE g[i]]

\* 3-byte responses: intact groups, groups with one bit inverted, and groups
\* whose checksum byte was replaced
Rx3 ==
    {WordGroup(x) : x \in WordSample}
        \cup {FlipBit(WordGroup(x), k) : x \in WordSample, k \in 0 .. 23}
        \cup {to_be_bytes(x) \o <<c>> : x \in WordSample, c \in NoiseChk}

\* the data words of a measurement channel: 0x43DB 0x8C2D and <<x, x>>
ChanSample == {<<17371, 35885>>} \cup {<<x, x>> : x \in 0 .. MaxChan}

\* checksum bytes a group of a measurement may arrive with: the right one,
\* 0x00 and 0xF0
ChanChk(x) == {crc8(to_be_bytes(x)), 0, 240}

\* the 6-byte channel with data words ch[1], ch[2] as delivered
ChanGroups(ch) ==
    {to_be_bytes(ch[1]) \o <<c1>> \o to_be_bytes(ch[2]) \o <<c2>> :
        c1 \in ChanChk(ch[1]), c2 \in ChanChk(ch[2])}

\* 6-byte channels as delivered
ChanRx == UNION {ChanGroups(ch) : ch \in ChanSample}

\* 18-byte responses
Rx18 == {co2 \o temp \o rh : co2 \in ChanRx, temp \in ChanRx, rh \in ChanRx}

----------------------------------------------------------------------------
(* State machine                                                           *)

NoResult == [tag |-> "none", val |-> <<>>]

\* no invocation: the transport has done nothing
NoIO == [w |-> FALSE, r |-> FALSE, rx |-> <<>>]

\* no invocation recorded
NoCall ==
    [op |-> "none", args |-> <<>>, io |-> NoIO, buffer |-> <<>>, trace |-> <<>>,
     data_buffer |-> <<>>, result |-> NoResult]

\* a session in which nothing was invoked
NoHist == [results |-> <<>>, triggered |-> FALSE, polled |-> FALSE]

Init ==
    /\ op = "none"
    /\ args = <<>>
    /\ buffer = <<>>
    /\ trace = <<>>
    /\ data_buffer = <<>>
    /\ result = NoResult
    /\ io = NoIO
    /\ first = NoCall
    /\ hist = NoHist
    /\ bus = <<>>

\* the caller holds no unconsumed Result: it is free to invoke a method
Idle == op = "none"

\* the caller invokes method name with arguments a and holds what it returns
Invoke(name, a, out) ==
    /\ op' = name
    /\ args' = a
    /\ buffer' = out.buffer
    /\ trace' = out.trace
    /\ data_buffer' = out.data_buffer
    /\ result' = out.result
    /\ UNCHANGED session

CheckFirmware ==
    /\ Idle
    /\ \E w \in BOOLEAN, r \in BOOLEAN, rx \in Rx3 :
           Invoke("check_firmware", <<>>, check_firmware(w, r, rx))

TriggerContMeasurements ==
    /\ Idle
    /\ \E w \in BOOLEAN :
           Invoke("trigger_cont_measurements", <<>>, trigger_cont_measurements(w))

StopContMeasurements ==
    /\ Idle
    /\ \E w \in BOOLEAN :
           Invoke("stop_cont_measurements", <<>>, stop_cont_measurements(w))

SetMeasurementsInterval ==
    /\ Idle
    /\ \E seconds \in WordSample, w \in BOOLEAN :
           Invoke("set_measurements_interval", <<seconds>>,
                  set_measurements_interval(seconds, w))

GetDataReady ==
    /\ Idle
    /\ \E w \in BOOLEAN, r \in BOOLEAN, rx \in Rx3 :
           Invoke("get_data_ready", <<>>, get_data_ready(w, r, rx))

GetMeasurements ==
    /\ Idle
    /\ \E w \in BOOLEAN, r \in BOOLEAN, rx \in Rx18 :
           Invoke("get_measurements", <<>>, get_measurements(w, r, rx))

GetSelfCalibrationStatus ==
    /\ Idle
    /\ \E w \in BOOLEAN, r \in BOOLEAN, rx \in Rx3 :
           Invoke("get_self_calibration_status", <<>>,
                  get_self_calibration_status(w, r, rx))

SetSelfCalibration ==
    /\ Idle
    /\ \E w \in BOOLEAN, r \in BOOLEAN, rx \in Rx3 :
           Invoke("set_self_calibration", <<>>, set_self_calibration(w, r, rx))

SoftReset ==
    /\ Idle
    /\ \E w \in BOOLEAN : Invoke("soft_reset", <<>>, soft_reset(w))

CheckAltitude ==
    /\ Idle
    /\ \E w \in BOOLEAN, r \in BOOLEAN, rx \in Rx3 :
           Invoke("check_altitude", <<>>, check_altitude(w, r, rx))

SetAltitude ==
    /\ Idle
    /\ \E altitude \in WordSample, w \in BOOLEAN :
           Invoke("set_altitude", <<altitude>>, set_altitude(altitude, w))

CheckTemperatureOffset ==
    /\ Idle
    /\ \E w \in BOOLEAN, r \in BOOLEAN, rx \in Rx3 :
           Invoke("check_temperature_offset", <<>>, check_temperature_offset(w, r, rx))

SetTemperatureOffset ==
    /\ Idle
    /\ \E offset \in WordSample, w \in BOOLEAN :
           Invoke("set_temperature_offset", <<offset>>, set_temperature_offset(offset, w))

GetForcedValue ==
    /\ Idle
    /\ \E w \in BOOLEAN, r \in BOOLEAN, rx \in Rx3 :
           Invoke("get_forced_value", <<>>, get_forced_value(w, r, rx))

SetForceRecalibrationValue ==
    /\ Idle
    /\ \E forced_value \in WordSample, w \in BOOLEAN :
           Invoke("set_force_recalibration_value", <<forced_value>>,
                  set_force_recalibration_value(forced_value, w))

\* the caller matches on the Result and drops it; the method's buffers are gone
Consume ==
    /\ op # "none"
    /\ op' = "none"
    /\ args' = <<>>
    /\ buffer' = <<>>
    /\ trace' = <<>>
    /\ data_buffer' = <<>>
    /\ result' = NoResult
    /\ UNCHANGED session

Next ==
    \/ CheckFirmware
    \/ TriggerContMeasurements
    \/ StopContMeasurements
    \/ SetMeasurementsInterval
    \/ GetDataReady
    \/ GetMeasurements
    \/ GetSelfCalibrationStatus
    \/ SetSelfCalibration
    \/ SoftReset
    \/ CheckAltitude
    \/ SetAltitude
    \/ CheckTemperatureOffset
    \/ SetTemperatureOffset
    \/ GetForcedValue
    \/ SetForceRecalibrationValue
    \/ Consume

Spec == Init /\ [][Next]_vars

----------------------------------------------------------------------------
(* Vocabulary of the properties                                            *)

\* methods that read one word group and return its u16
ScalarReads ==
    {"check_firmware", "check_altitude", "check_temperature_offset", "get_forced_value"}

\* methods that read one word group and return a flag
FlagReads == {"get_data_ready", "get_self_calibration_status", "set_self_calibration"}

\* methods that read a 3-byte response
WordReads == ScalarReads \cup FlagReads

\* methods that write and then read
Readers == WordReads \cup {"get_measurements"}

\* methods that only write
Writers ==
    {"trigger_cont_measurements", "stop_cont_measurements", "set_measurements_interval",
     "soft_reset", "set_altitude", "set_temperature_offset",
     "set_force_recalibration_value"}

\* the invocation attempted a transport read
ReadAttempted == \E i \in 1 .. Len(trace) : trace[i] \in {"read_ok", "read_err"}

\* the invocation read its response and the read returned Ok
ReadDone == Len(trace) = 3 /\ trace[3] = "read_ok"

\* the word group starting at byte i of the response carries the crc8 of its data
GroupValid(d, i) == d[i + 2] = crc8(<<d[i], d[i + 1]>>)

\* first bytes of the six word groups of an 18-byte response
GroupStarts == {1, 4, 7, 10, 13, 16}

----------------------------------------------------------------------------
(* C1: whichever method is invoked, if the transport write fails the       *)
(* method returns ComunicationError and attempts no transport read in that *)
(* invocation.                                                             *)
InvC1_WriteFailureFailsFast ==
    (op # "none" /\ trace[1] = "write_err")
        => /\ result = Err("ComunicationError")
           /\ ~ReadAttempted

\* a querying method whose write failed
WitC1_ReaderWriteFailed ==
    /\ op = "get_measurements"
    /\ trace = <<"write_err">>
    /\ result.tag = "ComunicationError"

(* C2: for a write-then-read method whose write succeeded, a failed read   *)
(* gives ComunicationError; a successful read whose checksum byte differs  *)
(* from crc8 of the two data bytes gives ChecksumError; only a successful  *)
(* read with matching checksum gives Ok, and the scalar-register reads     *)
(* then return the big-endian 16-bit word of the two data bytes.           *)
InvC2_ReadOutcomes ==
    (op \in Readers /\ trace[1] = "write_ok")
        => /\ trace[3] = "read_err" => result = Err("ComunicationError")
           /\ (trace[3] = "read_ok" /\ op \in WordReads)
                 => IF GroupValid(data_buffer, 1)
                    THEN /\ result.tag = "Ok"
                         /\ op \in ScalarReads
                               => result.val = data_buffer[1] * 256 + data_buffer[2]
                    ELSE result = Err("ChecksumError")
           /\ (trace[3] = "read_ok" /\ op = "get_measurements")
                 => IF \A i \in GroupStarts : GroupValid(data_buffer, i)
                    THEN result.tag = "Ok"
                    ELSE result = Err("ChecksumError")

\* a scalar read returns a word whose two bytes differ, after a good read
WitC2_ScalarWord ==
    /\ op = "get_forced_value"
    /\ trace = <<"write_ok", "sleep", "read_ok">>
    /\ data_buffer[1] = 67 /\ data_buffer[2] = 219
    /\ result = Ok(17371)

(* C3: get_measurements returns Ok only if each of the six word groups of  *)
(* the 18-byte response carries the crc8 of its own two data bytes; if any *)
(* one group does not, the call returns ChecksumError and no channel       *)
(* value, whichever group it is and whatever the other five are.           *)
InvC3_AllSixGroups ==
    (op = "get_measurements" /\ ReadDone)
        => /\ result.tag = "Ok" => \A i \in GroupStarts : GroupValid(data_buffer, i)
           /\ \A i \in GroupStarts :
                  ~GroupValid(data_buffer, i) => result = Err("ChecksumError")

\* only the low word of the last channel is corrupt, and the call is refused
WitC3_OnlyLastGroupBad ==
    /\ op = "get_measurements"
    /\ ReadDone
    /\ \A i \in GroupStarts \ {16} : GroupValid(data_buffer, i)
    /\ ~GroupValid(data_buffer, 16)
    /\ result = Err("ChecksumError")

\* methods that send a u16 argument
Setters ==
    {"set_measurements_interval", "set_altitude", "set_temperature_offset",
     "set_force_recalibration_value"}

(* C4 (as amended): crc8 (polynomial 0x31, initial remainder 0xFF, no      *)
(* final XOR) gives crc8([0x00,0x00]) = 0x81 and crc8([0x01,0x01]) = 0x44: *)
(* a setter called with 0x0000 ends its frame with 0x81 and with 0x0101    *)
(* with 0x44, and a 3-byte response with data bytes 00 00 (01 01) is       *)
(* accepted exactly when its third byte is 0x81 (0x44).                    *)
InvC4_CrcVectors ==
    /\ (op \in Setters /\ args = <<0>>) => buffer[5] = 129
    /\ (op \in Setters /\ args = <<257>>) => buffer[5] = 68
    /\ (op \in WordReads /\ ReadDone /\ data_buffer[1] = 0 /\ data_buffer[2] = 0)
          => (result.tag = "Ok" <=> data_buffer[3] = 129)
    /\ (op \in WordReads /\ ReadDone /\ data_buffer[1] = 1 /\ data_buffer[2] = 1)
          => (result.tag = "Ok" <=> data_buffer[3] = 68)

\* the response 01 01 44 is read and accepted as the word 0x0101
WitC4_Vector0101Accepted ==
    /\ op = "check_firmware"
    /\ ReadDone
    /\ data_buffer = <<1, 1, 68>>
    /\ result = Ok(257)

\* C4 as stated: crc8([0x00,0x00]) = 0x81 and crc8([0x01,0x01]) = 0x0F
CexC4_CrcVectorsAsStated ==
    /\ (op \in Setters /\ args = <<0>>) => buffer[5] = 129
    /\ (op \in Setters /\ args = <<257>>) => buffer[5] = 15
    /\ (op \in WordReads /\ ReadDone /\ data_buffer[1] = 0 /\ data_buffer[2] = 0)
          => (result.tag = "Ok" <=> data_buffer[3] = 129)
    /\ (op \in WordReads /\ ReadDone /\ data_buffer[1] = 1 /\ data_buffer[2] = 1)
          => (result.tag = "Ok" <=> data_buffer[3] = 15)

\* inverting bit k of d gives a word group that carries the crc8 of its data
OneBitFromValid(d, k) == GroupValid(FlipBit(d, k), 1)

(* C5: single-bit corruption is always detected: a method that reads one   *)
(* word group and receives be(v) ++ crc8(be(v)) with any one of its 24     *)
(* bits inverted returns ChecksumError.                                    *)
InvC5_SingleBitFlipRejected ==
    (op \in WordReads /\ ReadDone /\ \E k \in 0 .. 23 : OneBitFromValid(data_buffer, k))
        => result = Err("ChecksumError")

\* the group 43 DB CB arrives with bit 4 of its second byte inverted
WitC5_DataBitFlipped ==
    /\ op = "get_data_ready"
    /\ ReadDone
    /\ data_buffer = <<67, 203, 203>>
    /\ OneBitFromValid(data_buffer, 12)
    /\ result = Err("ChecksumError")

\* channel ch (1..3) of the response carries the data bytes 43 DB .. 8C 2D ..
FixtureData(d, ch) ==
    LET i == 6 * (ch - 1) + 1
    IN  d[i] = 67 /\ d[i + 1] = 219 /\ d[i + 3] = 140 /\ d[i + 4] = 45

\* the two checksum bytes of channel ch
ChanChecks(d, ch) == <<d[6 * (ch - 1) + 3], d[6 * (ch - 1) + 6]>>

\* both word groups of every channel but ch are valid
OthersValid(d, ch) ==
    \A i \in GroupStarts \ {6 * (ch - 1) + 1, 6 * (ch - 1) + 4} : GroupValid(d, i)

(* C6 (as amended): crc8([0x43,0xDB]) = 0xCB and crc8([0x8C,0x2D]) = 0xDC, *)
(* not 0xF0.  A measurement channel [0x43,0xDB,0xCB,0x8C,0x2D,0xDC]        *)
(* validates and its value is the big-endian 32-bit pattern 0x43DB8C2D of  *)
(* bytes 0,1,3,4; with either checksum byte replaced by any other value    *)
(* (the documented 0xF0 among them) the call returns ChecksumError,        *)
(* whatever the other checksum byte is.                                    *)
InvC6_FixtureChannel ==
    (op = "get_measurements" /\ ReadDone)
        => \A ch \in 1 .. 3 :
               FixtureData(data_buffer, ch)
                   => /\ ChanChecks(data_buffer, ch) # <<203, 220>>
                         => result = Err("ChecksumError")
                      /\ (ChanChecks(data_buffer, ch) = <<203, 220>>
                            /\ OthersValid(data_buffer, ch))
                         => /\ result.tag = "Ok"
                            /\ result.val[ch] = 1138461741

\* the temperature channel is 43 DB CB 8C 2D DC and decodes to 0x43DB8C2D
WitC6_FixtureDecoded ==
    /\ op = "get_measurements"
    /\ ReadDone
    /\ SubSeq(data_buffer, 7, 12) = <<67, 219, 203, 140, 45, 220>>
    /\ result.tag = "Ok"
    /\ result.val[2] = 1138461741

\* C6 as stated: the channel [0x43,0xDB,0xCB,0x8C,0x2D,0xF0] validates and
\* decodes to 0x43DB8C2D
CexC6_FixtureAsStated ==
    (op = "get_measurements" /\ ReadDone)
        => \A ch \in 1 .. 3 :
               (/\ FixtureData(data_buffer, ch)
                /\ ChanChecks(data_buffer, ch) = <<203, 240>>
                /\ OthersValid(data_buffer, ch))
                   => /\ result.tag = "Ok"
                      /\ result.val[ch] = 1138461741

\* the opcode of each method, as tabulated
Opcode(name) ==
    CASE name = "check_firmware" -> <<209, 0>>
      [] name = "trigger_cont_measurements" -> <<0, 16>>
      [] name = "stop_cont_measurements" -> <<1, 1>>
      [] name = "set_measurements_interval" -> <<70, 0>>
      [] name = "get_data_ready" -> <<2, 2>>
      [] name = "get_measurements" -> <<3, 0>>
      [] name \in {"get_self_calibration_status", "set_self_calibration"} -> <<83, 6>>
      [] name = "soft_reset" -> <<211, 4>>
      [] name \in {"check_altitude", "set_altitude"} -> <<81, 2>>
      [] name \in {"check_temperature_offset", "set_temperature_offset"} -> <<84, 3>>
      [] name \in {"get_forced_value", "set_force_recalibration_value"} -> <<82, 4>>

\* opcode ++ big-endian argument ++ crc8(argument)
Encode(opcode, x) ==
    opcode \o <<x \div 256, x % 256>> \o <<crc8(<<x \div 256, x % 256>>)>>

(* C7: every frame written to the bus is either the bare 2-byte opcode or  *)
(* the 5 bytes opcode ++ big-endian argument ++ crc8(argument); the four   *)
(* setters write that encoding of their argument under their table opcode  *)
(* (set_measurements_interval(2) writes 46 00 00 02 crc8([00,02])), and    *)
(* the fixed frame of trigger_cont_measurements is the encoding of 0x0000. *)
InvC7_FrameShapes ==
    op # "none"
        => /\ \/ buffer = Opcode(op)
              \/ /\ Len(buffer) = 5
                 /\ buffer = Encode(Opcode(op), buffer[3] * 256 + buffer[4])
           /\ op \in Setters => buffer = Encode(Opcode(op), args[1])
           /\ (op = "set_measurements_interval" /\ args = <<2>>)
                 => buffer = <<70, 0, 0, 2, crc8(<<0, 2>>)>>
           /\ op = "trigger_cont_measurements" => buffer = Encode(<<0, 16>>, 0)

\* set_measurements_interval(2) wrote 46 00 00 02 E3
WitC7_IntervalTwo ==
    /\ op = "set_measurements_interval"
    /\ args = <<2>>
    /\ trace[1] = "write_ok"
    /\ buffer = <<70, 0, 0, 2, 227>>

(* C8: set_self_calibration writes opcode 53 06 followed by a flag word    *)
(* and the crc8 of that word (5 bytes), get_self_calibration_status the    *)
(* bare opcode 53 06; the two put different bytes on the bus.              *)
CexC8_SetCalibrationCarriesFlag ==
    /\ op = "get_self_calibration_status" => buffer = <<83, 6>>
    /\ op = "set_self_calibration"
          => /\ Len(buffer) = 5
             /\ SubSeq(buffer, 1, 2) = <<83, 6>>
             /\ buffer[5] = crc8(<<buffer[3], buffer[4]>>)
             /\ buffer # <<83, 6>>

\* the methods whose flag C9 and C10 are about
StatusFlags == {"get_data_ready", "get_self_calibration_status"}

(* C9 (as amended): a flag read from a scalar register (get_data_ready,    *)
(* get_self_calibration_status) is true exactly when the low byte of the   *)
(* checksum-validated word is 0x01; it is false when the low byte is zero  *)
(* and also when it is any other nonzero value.                            *)
InvC9_FlagIsLowByteOne ==
    (op \in StatusFlags /\ result.tag = "Ok")
        => /\ GroupValid(data_buffer, 1)
           /\ result.val = (data_buffer[2] = 1)

\* a validated word with nonzero low byte 0xDB reads as false
WitC9_NonzeroLowByteFalse ==
    /\ op = "get_self_calibration_status"
    /\ data_buffer = <<67, 219, 203>>
    /\ result = Ok(FALSE)

\* C9 as stated: the flag is true whenever the low byte is nonzero and false
\* only when it is zero
CexC9_FlagIsLowByteNonzero ==
    (op \in StatusFlags /\ result.tag = "Ok")
        => (result.val <=> data_buffer[2] # 0)

(* C10: after a successful write and read and a passing checksum,          *)
(* get_data_ready returns Ok(true) exactly when the second data byte of    *)
(* the response is 0x01 and Ok(false) for every other value of that byte,  *)
(* whatever the first data byte is.                                        *)
InvC10_DataReadyLowByte ==
    (op = "get_data_ready" /\ ReadDone /\ GroupValid(data_buffer, 1))
        => IF data_buffer[2] = 1 THEN result = Ok(TRUE) ELSE result = Ok(FALSE)

\* high byte 0x80, low byte 0x01: ready
WitC10_ReadyWithHighByte ==
    /\ op = "get_data_ready"
    /\ ReadDone
    /\ data_buffer[1] = 128 /\ data_buffer[2] = 1
    /\ result = Ok(TRUE)

----------------------------------------------------------------------------
(* Sessions: several invocations on one Scd30, one after the other, with   *)
(* the session recorded.  A method takes &mut self and runs to its return, *)
(* so the invocations of a session do not overlap.                         *)

\* the methods of Scd30
Methods == Readers \cup Writers

\* the method called name, applied to its argument and to what the transport does
Method(name, a, w, r, rx) ==
    CASE name = "check_firmware" -> check_firmware(w, r, rx)
      [] name = "trigger_cont_measurements" -> trigger_cont_measurements(w)
      [] name = "stop_cont_measurements" -> stop_cont_measurements(w)
      [] name = "set_measurements_interval" -> set_measurements_interval(a[1], w)
      [] name = "get_data_ready" -> get_data_ready(w, r, rx)
      [] name = "get_measurements" -> get_measurements(w, r, rx)
      [] name = "get_self_calibration_status" -> get_self_calibration_status(w, r, rx)
      [] name = "set_self_calibration" -> set_self_calibration(w, r, rx)
      [] name = "soft_reset" -> soft_reset(w)
      [] name = "check_altitude" -> check_altitude(w, r, rx)
      [] name = "set_altitude" -> set_altitude(a[1], w)
      [] name = "check_temperature_offset" -> check_temperature_offset(w, r, rx)
      [] name = "set_temperature_offset" -> set_temperature_offset(a[1], w)
      [] name = "get_forced_value" -> get_forced_value(w, r, rx)
      [] name = "set_force_recalibration_value" -> set_force_recalibration_value(a[1], w)

\* arguments a session passes to name: 0x0002 and 0x0101 to the setters
SeqArgs(name) == IF name \in Setters THEN {<<2>>, <<257>>} ELSE {<<>>}

\* data_buffer as the method initialises it: [0; n]
Zeroed(n) == [i \in 1 .. n |-> 0]

\* responses a session receives: one intact and one with a wrong checksum byte
SeqRx(name) ==
    IF name = "get_measurements"
    THEN {<<67, 219, 203, 140, 45, 220, 0, 0, 129, 0, 1, 176, 0, 0, 129, 1, 1, 68>>,
          <<67, 219, 203, 140, 45, 240, 0, 0, 129, 0, 1, 176, 0, 0, 129, 1, 1, 68>>}
    ELSE {<<0, 1, 176>>, <<0, 1, 15>>}

\* what the transport may do during an invocation of name: fail the write;
\* accept the write and, for a method that reads, fail the read or deliver
\* a response
Transport(name) ==
    {[w |-> FALSE, r |-> FALSE, rx |-> <<>>]}
        \cup (IF name \in Writers
              THEN {[w |-> TRUE, r |-> FALSE, rx |-> <<>>]}
              ELSE {[w |-> TRUE, r |-> FALSE,
                     rx |-> Zeroed(IF name = "get_measurements" THEN 18 ELSE 3)]}
                       \cup {[w |-> TRUE, r |-> TRUE, rx |-> x] : x \in SeqRx(name)})

\* the bus events of invocation number n
Tagged(n, t) == [i \in 1 .. Len(t) |-> [call |-> n, ev |-> t[i]]]

\* invocation of name with arguments a while the transport does t
Record(name, a, t, out) ==
    LET this == [op |-> name, args |-> a, io |-> t, buffer |-> out.buffer,
                 trace |-> out.trace, data_buffer |-> out.data_buffer,
                 result |-> out.result]
    IN  /\ op' = name
        /\ args' = a
        /\ buffer' = out.buffer
        /\ trace' = out.trace
        /\ data_buffer' = out.data_buffer
        /\ result' = out.result
        /\ io' = t
        /\ first' = IF first.op = "none" THEN this ELSE first
        /\ hist' = [results |-> Append(hist.results, out.result.tag),
                    triggered |-> hist.triggered \/ name = "trigger_cont_measurements",
                    polled |-> hist.polled \/ name = "get_data_ready"]
        /\ bus' = bus \o Tagged(Len(hist.results) + 1, out.trace)

\* every invocation a session may make, with what the method does in it
Invocations ==
    UNION {{[op |-> name, args |-> a, io |-> t,
             out |-> Method(name, a, t.w, t.r, t.rx)] :
                a \in SeqArgs(name), t \in Transport(name)} : name \in Methods}

\* the caller invokes any method, whatever the earlier invocations returned
Call ==
    /\ Len(hist.results) < MaxCalls
    /\ \E c \in Invocations : Record(c.op, c.args, c.io, c.out)

NextSeq == Call

SpecSeq == Init /\ [][NextSeq]_vars

\* the invocation just made, as recorded
Current ==
    [op |-> op, args |-> args, io |-> io, buffer |-> buffer, trace |-> trace,
     data_buffer |-> data_buffer, result |-> result]

\* the invocation just made is a later one that repeats the first of the
\* session: same method, same argument, same behaviour of the transport
RepeatsFirst ==
    /\ Len(hist.results) >= 2
    /\ op = first.op
    /\ args = first.args
    /\ io = first.io

Events(n) ==
    LET seg == SelectSeq(bus, LAMBDA e : e.call = n)
    IN  [i \in 1 .. Len(seg) |-> seg[i].ev]

\* one write and nothing more; one write, the settle delay and nothing more;
\* one write, the settle delay and one read
OneRoundTrip ==
    {<<"write_err">>, <<"write_ok", "sleep">>,
     <<"write_ok", "sleep", "read_ok">>, <<"write_ok", "sleep", "read_err">>}

(* C12: no method retries.  In any sequence of invocations each invocation *)
(* makes exactly one transport write and at most one transport read, in    *)
(* the order write, settle delay, read; the read comes only after that     *)
(* invocation's write succeeded and its delay elapsed; the write-only      *)
(* methods never read.  The bus trace of the session is the concatenation  *)
(* of the invocations' traces: no event of one invocation lies between two *)
(* events of another.                                                      *)
InvC12_OneRoundTripEach ==
    /\ \A i \in 1 .. Len(bus) : bus[i].call \in 1 .. Len(hist.results)
    /\ \A i \in 1 .. Len(bus) : \A j \in i .. Len(bus) : bus[i].call <= bus[j].call
    /\ \A n \in 1 .. Len(hist.results) : Events(n) \in OneRoundTrip
    /\ op # "none"
          => /\ Events(Len(hist.results)) = trace
             /\ op \in Writers => ~ReadAttempted

\* a read, then a failed write, then a write-only method: six bus events
WitC12_ThreeInvocations ==
    /\ Len(hist.results) = 3
    /\ Events(1) = <<"write_ok", "sleep", "read_ok">>
    /\ Events(2) = <<"write_err">>
    /\ Events(3) = <<"write_ok", "sleep">>
    /\ op = "soft_reset"
    /\ Len(bus) = 6

====
